---- MODULE Spec2Model ----
(***************************************************************************)
(* Model of the Cognitive-Field-Explorer packet store                      *)
(* (src/services/fieldService.ts): the InformationField class with its     *)
(* id->packet map, its time-ordered timeline and its tag index, and the    *)
(* query engine that reads them.                                           *)
(*                                                                         *)
(* JavaScript values are modelled as follows:                              *)
(*   - an InfoPacket is a record; `embedding` absent is the empty tuple;   *)
(*   - a Map is a function whose DOMAIN is the set of keys;                *)
(*   - a Set is a duplicate-free sequence, because a JS Set iterates in    *)
(*     insertion order and query() depends on that order;                  *)
(*   - a FieldQuery is a record that has exactly the fields the caller     *)
(*     gave (an optional field that is undefined is not in its DOMAIN);    *)
(*   - array indices are 0-based in the helpers that mirror findIndex,     *)
(*     splice and slice, and converted at the sequence access.             *)
(***************************************************************************)
EXTENDS Integers, Sequences, FiniteSets, TLC

VARIABLES
  field,  \* the InformationField instance: its packets map (id -> packet),
          \* its timeline (array of {t, id}) and its tagIndex (tag -> Set of ids)
  op,     \* the method of the instance that was called last, "idle" between calls
  arg,    \* the argument of that call
  ret,    \* the value that call returned; for a cycle, the diagnostics it
          \* hands to setEpistemic
  step,   \* App: the cycle counter
  ignitionStepsRemaining,  \* App: the ignition counter
  pending,  \* App: the cycles suspended on generateSyntheticObservation, each
            \* with the step and ignitionStepsRemaining its closure captured
  clock,  \* the wall clock, Date.now() / 1000
  cooldownRemaining,  \* App (the kernel variant): seconds of cooldown left
  stepLimit,  \* cycles are explored until step reaches this value
  isRunning,  \* App: the interval that starts the cycles is installed
  isAiLoading,  \* App: a pattern audit is under way
  analysis   \* App: the calls of analyzeFieldPatterns that have not settled

controls == <<isRunning, isAiLoading, analysis>>

app == <<step, ignitionStepsRemaining, pending, clock, cooldownRemaining, stepLimit,
        controls>>

vars == <<field, op, arg, ret, app>>

(***************************************************************************)
(* Bounds of the model.                                                    *)
(***************************************************************************)
MaxPackets == 3
MaxT == 2
MaxN == 3
MaxSteps == 4
MaxPending == 1

(***************************************************************************)
(* JavaScript helpers.                                                     *)
(***************************************************************************)
Min(a, b) == IF a < b THEN a ELSE b
Max(a, b) == IF a > b THEN a ELSE b

undefined == [undefined |-> TRUE]
null == [null |-> TRUE]
NoEmbedding == <<>>

Has(q, f) == f \in DOMAIN q

Includes(s, x) == \E i \in 1..Len(s) : s[i] = x

\* Set.prototype.add: a JS Set keeps insertion order and ignores duplicates
SetAdd(s, x) == IF Includes(s, x) THEN s ELSE Append(s, x)

\* The loops over a list (forEach, reduce, the insertions of a sort) are
\* folds.  A fold over a long list is evaluated by halves, the second half
\* from the value the first half produced: the result is that of the loop.
FirstHalf(s) == SubSeq(s, 1, Len(s) \div 2)
SecondHalf(s) == SubSeq(s, Len(s) \div 2 + 1, Len(s))

\* xs.forEach(x => s.add(x))
RECURSIVE SetAddAll(_, _)
SetAddAll(s, xs) ==
  IF xs = <<>> THEN s
  ELSE IF Len(xs) = 1 THEN SetAdd(s, xs[1])
       ELSE CHOOSE r \in { SetAddAll(h, SecondHalf(xs)) :
                             h \in { SetAddAll(s, FirstHalf(xs)) } } : TRUE

\* new Set(iterable)
NewSet(xs) == SetAddAll(<<>>, xs)

\* Array.prototype.filter with the predicate "is a member of `keep`"
FilterIn(s, keep) == SelectSeq(s, LAMBDA x : Includes(keep, x))

\* findIndex with the comparison item.t >= t: a packet would go before its ties
findIndexGreaterOrEqual(tl, t) ==
  IF \E i \in 1..Len(tl) : tl[i].t >= t
  THEN (CHOOSE i \in 1..Len(tl) :
          tl[i].t >= t /\ \A j \in 1..(i - 1) : ~(tl[j].t >= t)) - 1
  ELSE -1

\* Array.prototype.findIndex(item => item.t > t): 0-based index or -1
findIndexGreater(tl, t) ==
  IF \E i \in 1..Len(tl) : tl[i].t > t
  THEN (CHOOSE i \in 1..Len(tl) :
          tl[i].t > t /\ \A j \in 1..(i - 1) : ~(tl[j].t > t)) - 1
  ELSE -1

\* Array.prototype.splice(index, 0, x) with a 0-based index
splice(tl, index, x) ==
  SubSeq(tl, 1, index) \o <<x>> \o SubSeq(tl, index + 1, Len(tl))

\* relative index of Array.prototype.slice
RelIndex(i, len) == IF i < 0 THEN Max(len + i, 0) ELSE Min(i, len)

\* Array.prototype.slice(start, end), 0-based, end exclusive
slice(s, start, end) ==
  SubSeq(s, RelIndex(start, Len(s)) + 1, RelIndex(end, Len(s)))

\* Array.prototype.slice(start)
sliceFrom(s, start) == slice(s, start, Len(s))

\* Array.prototype.reverse
reverse(s) == [i \in 1..Len(s) |-> s[Len(s) + 1 - i]]

\* one insertion of the stable sort below: x goes after every element
\* that does not compare greater, i.e. after those with t >= x.t
InsertDesc(sorted, x) ==
  LET k == Cardinality({i \in 1..Len(sorted) : sorted[i].t >= x.t})
  IN  SubSeq(sorted, 1, k) \o <<x>> \o SubSeq(sorted, k + 1, Len(sorted))

\* Array.prototype.sort((a, b) => b.t - a.t), which is stable (ES2019)
RECURSIVE sortDescFrom(_, _)
sortDescFrom(sorted, rest) ==
  IF rest = <<>> THEN sorted
  ELSE IF Len(rest) = 1 THEN InsertDesc(sorted, rest[1])
       ELSE CHOOSE r \in { sortDescFrom(h, SecondHalf(rest)) :
                             h \in { sortDescFrom(sorted, FirstHalf(rest)) } } : TRUE

\* the sort left out: the results stay in candidate order
sortOmitted(s) == s

sortDesc(s) == sortDescFrom(<<>>, s)

(***************************************************************************)
(* class InformationField                                                  *)
(***************************************************************************)
EmptyMap == [k \in {} |-> 0]

NewField == [packets |-> EmptyMap, timeline |-> <<>>, tagIndex |-> EmptyMap]

\* only pkt.tags[0] is indexed
indexFirstTagOnly(idx, tags, id) ==
  IF tags = <<>> THEN idx
  ELSE LET tag == Head(tags)
           cur == IF tag \in DOMAIN idx THEN idx[tag] ELSE <<>>
       IN  [g \in (DOMAIN idx) \cup {tag} |->
              IF g = tag THEN SetAdd(cur, id) ELSE idx[g]]

\* pkt.tags.forEach(tag => { if (!has) set(tag, new Set()); get(tag).add(id) })
RECURSIVE indexTags(_, _, _)
indexTags(idx, tags, id) ==
  IF tags = <<>> THEN idx
  ELSE LET tag == Head(tags)
           cur == IF tag \in DOMAIN idx THEN idx[tag] ELSE <<>>
           nxt == (tag :> SetAdd(cur, id)) @@ idx
       IN  indexTags(nxt, Tail(tags), id)

\* the body of put past the duplicate check: record the packet, place it
\* in the timeline, index its tags
putNew(f, pkt) ==
  LET index == findIndexGreater(f.timeline, pkt.t)
      item == [t |-> pkt.t, id |-> pkt.id]
  IN  [packets  |-> (pkt.id :> pkt) @@ f.packets,
       timeline |-> IF index = -1 THEN Append(f.timeline, item)
                    ELSE splice(f.timeline, index, item),
       tagIndex |-> indexTags(f.tagIndex, pkt.tags, pkt.id)]

\* put with the duplicate check made on the timestamp instead of the id
putDedupByTime(f, pkt) ==
  IF \E i \in 1..Len(f.timeline) : f.timeline[i].t = pkt.t THEN f
  ELSE putNew(f, pkt)

\* put without the duplicate check
putUnchecked(f, pkt) == putNew(f, pkt)

\* put as an upsert: a duplicate id replaces the stored packet
putUpsert(f, pkt) ==
  IF pkt.id \in DOMAIN f.packets
  THEN [f EXCEPT !.packets = [i \in DOMAIN f.packets |->
                                IF i = pkt.id THEN pkt ELSE f.packets[i]]]
  ELSE putNew(f, pkt)

\* put on a store of bounded capacity: past two packets the oldest item of
\* the timeline is evicted
putEvicting(f, pkt) ==
  LET evict(g) ==
        IF Len(g.timeline) > 2
        THEN [g EXCEPT !.packets = [i \in (DOMAIN g.packets) \ {g.timeline[1].id} |->
                                      g.packets[i]],
                       !.timeline = Tail(g.timeline)]
        ELSE g
  IN  IF pkt.id \in DOMAIN f.packets THEN f ELSE evict(putNew(f, pkt))

put(f, pkt) ==
  IF pkt.id \in DOMAIN f.packets THEN f ELSE putNew(f, pkt)

get(f, id) == IF id \in DOMAIN f.packets THEN f.packets[id] ELSE undefined

getSize(f) == Cardinality(DOMAIN f.packets)

\* only tags_any[0] is looked up
anySetOfFirstTag(f, tags, anySet) ==
  IF tags = <<>> THEN anySet
  ELSE IF Head(tags) \in DOMAIN f.tagIndex
       THEN SetAddAll(anySet, f.tagIndex[Head(tags)]) ELSE anySet

\* the tags_any block of query: union of the tag-indexed id sets
RECURSIVE anySetOf(_, _, _)
anySetOf(f, tags, anySet) ==
  IF tags = <<>> THEN anySet
  ELSE LET tag == Head(tags)
       IN  anySetOf(f, Tail(tags),
                    IF tag \in DOMAIN f.tagIndex
                    THEN SetAddAll(anySet, f.tagIndex[tag]) ELSE anySet)

\* every tag of tags_all replaces the candidate set instead of narrowing it
RECURSIVE allSetOfReplacing(_, _, _)
allSetOfReplacing(f, tags, ids) ==
  IF tags = <<>> THEN ids
  ELSE LET tag == Head(tags)
           tagIds == IF tag \in DOMAIN f.tagIndex THEN f.tagIndex[tag] ELSE <<>>
       IN  allSetOfReplacing(f, Tail(tags), [set |-> NewSet(tagIds)])

\* the tags_all block of query; ids is null or a set of ids
RECURSIVE allSetOf(_, _, _)
allSetOf(f, tags, ids) ==
  IF tags = <<>> THEN ids
  ELSE LET tag == Head(tags)
           tagIds == IF tag \in DOMAIN f.tagIndex THEN f.tagIndex[tag] ELSE <<>>
       IN  allSetOf(f, Tail(tags),
                    IF ids = null THEN [set |-> NewSet(tagIds)]
                    ELSE [set |-> FilterIn(ids.set, tagIds)])

\* the tags_any block of query: the ids carrying any of the listed tags
queryTagsAny(f, q) ==
  IF Has(q, "tags_any") /\ Len(q.tags_any) > 0
  THEN [set |-> anySetOf(f, q.tags_any, <<>>)] ELSE null

\* the tags_all block
queryTagsAll(f, q, ids) ==
  IF Has(q, "tags_all") /\ Len(q.tags_all) > 0
  THEN allSetOf(f, q.tags_all, ids) ELSE ids

\* the ids of the timeline items within since_t .. until_t
queryTimeIds(f, q) ==
  LET bySince(tl) == IF Has(q, "since_t")
                     THEN SelectSeq(tl, LAMBDA i : i.t >= q.since_t) ELSE tl
      byUntil(tl) == IF Has(q, "until_t")
                     THEN SelectSeq(tl, LAMBDA i : i.t <= q.until_t) ELSE tl
      ids(tl) == NewSet([i \in 1..Len(tl) |-> tl[i].id])
  IN  ids(byUntil(bySince(f.timeline)))

\* the time block: it also supplies the candidates when no tag filter did
queryTime(f, q, ids) ==
  IF Has(q, "since_t") \/ Has(q, "until_t") \/ ids = null
  THEN (IF ids = null THEN [set |-> queryTimeIds(f, q)]
        ELSE [set |-> FilterIn(ids.set, queryTimeIds(f, q))])
  ELSE ids

\* Array.from(ids) mapped to the stored packets
queryResults(f, ids) ==
  LET found(set) == SelectSeq(set, LAMBDA id : id \in DOMAIN f.packets)
      packetsOf(fs) == [i \in 1..Len(fs) |-> f.packets[fs[i]]]
  IN  packetsOf(found(ids.set))

\* the kinds filter
queryKinds(q, results) ==
  IF Has(q, "kinds") /\ Len(q.kinds) > 0
  THEN SelectSeq(results, LAMBDA p : Includes(NewSet(q.kinds), p.kind))
  ELSE results

\* the limit
queryLimit(q, results) ==
  IF Has(q, "limit") THEN slice(results, 0, q.limit) ELSE results

query(f, q) ==
  queryLimit(q,
    sortDesc(
      queryKinds(q,
        queryResults(f,
          queryTime(f, q, queryTagsAll(f, q, queryTagsAny(f, q)))))))

\* a variant that does not reverse the slice of the timeline
getLatestOldestFirst(f, n) ==
  LET packetsOf(items) == [i \in 1..Len(items) |-> get(f, items[i].id)]
  IN  packetsOf(sliceFrom(f.timeline, -n))

getLatest(f, n) ==
  LET packetsOf(items) == [i \in 1..Len(items) |-> get(f, items[i].id)]
  IN  packetsOf(reverse(sliceFrom(f.timeline, -n)))

(***************************************************************************)
(* Numbers.  The embeddings and the metrics are real numbers: a coordinate *)
(* is a rational n/d in lowest terms, the square root of a rational q is   *)
(* kept as [sqrt |-> q], and 0/0 is NaN.                                   *)
(***************************************************************************)
Abs(x) == IF x < 0 THEN -x ELSE x

RECURSIVE GCD(_, _)
GCD(a, b) == IF b = 0 THEN a ELSE GCD(b, a % b)

NaN == [nan |-> TRUE]

IsNaN(x) == "nan" \in DOMAIN x

Rat(n, d) ==
  IF d = 0 THEN NaN
  ELSE LET g == GCD(Abs(n), Abs(d))
           sgn == IF d < 0 THEN -1 ELSE 1
       IN  [n |-> (sgn * n) \div g, d |-> (sgn * d) \div g]

RatAdd(a, b) ==
  IF IsNaN(a) \/ IsNaN(b) THEN NaN ELSE Rat(a.n * b.d + b.n * a.d, a.d * b.d)

RatSub(a, b) ==
  IF IsNaN(a) \/ IsNaN(b) THEN NaN ELSE Rat(a.n * b.d - b.n * a.d, a.d * b.d)

RatMul(a, b) ==
  IF IsNaN(a) \/ IsNaN(b) THEN NaN ELSE Rat(a.n * b.n, a.d * b.d)

\* a / k for an integer k >= 0
RatDiv(a, k) == IF IsNaN(a) THEN NaN ELSE Rat(a.n, a.d * k)

\* a < b; every comparison with NaN is false
RatLess(a, b) ==
  IF IsNaN(a) \/ IsNaN(b) THEN FALSE ELSE a.n * b.d < b.n * a.d

\* the sum of a list; the rationals are exact, so the order of the
\* additions does not show
RECURSIVE RatSum(_)
RatSum(s) ==
  IF s = <<>> THEN Rat(0, 1)
  ELSE IF Len(s) = 1 THEN s[1]
       ELSE RatAdd(RatSum(FirstHalf(s)), RatSum(SecondHalf(s)))

\* dx * dx + dy * dy for two embeddings
distSq(e1, e2) ==
  LET dx == RatSub(e1[1], e2[1])
      dy == RatSub(e1[2], e2[2])
  IN  RatAdd(RatMul(dx, dx), RatMul(dy, dy))

\* Math.sqrt
Sqrt(q) == [sqrt |-> q]

\* the number 0
Zero == Sqrt(Rat(0, 1))

\* Math.exp(entropy) of the assignment counts; it is exactly 1.0 when all
\* observations fall into one bucket, which is also the literal 1.0
ExpEntropy(counts) ==
  IF Len(counts) <= 1 THEN [expEntropy |-> <<>>] ELSE [expEntropy |-> counts]

One == ExpEntropy(<<>>)

(***************************************************************************)
(* The metrics of InformationField.                                        *)
(***************************************************************************)
WithEmbedding(s) == SelectSeq(s, LAMBDA p : p.embedding # NoEmbedding)

calculateInnovationError(f, latestObs) ==
  LET errorTo(found) ==
        IF found = <<>> THEN Zero
        ELSE IF found[1].embedding = NoEmbedding \/ latestObs.embedding = NoEmbedding
             THEN Zero
             ELSE Sqrt(distSq(latestObs.embedding, found[1].embedding))
  IN  errorTo(query(f, [kinds |-> <<"summary">>, limit |-> 1]))

Infinity == [infinity |-> TRUE]

\* the summaries.forEach of calculateDiversity from the k-th summary on:
\* nearestId is replaced when the distance is strictly smaller (distances
\* are compared by their squares, the square root being monotone)
RECURSIVE nearestFrom(_, _, _, _, _)
nearestFrom(obs, summaries, k, nearest, minDist) ==
  IF k > Len(summaries) THEN nearest
  ELSE LET d == distSq(obs.embedding, summaries[k].embedding)
           less == IF minDist = Infinity THEN ~IsNaN(d) ELSE RatLess(d, minDist)
       IN  IF less THEN nearestFrom(obs, summaries, k + 1, summaries[k].id, d)
           ELSE nearestFrom(obs, summaries, k + 1, nearest, minDist)

nearestId(obs, summaries) ==
  nearestFrom(obs, summaries, 1, summaries[1].id, Infinity)

\* counts.set(nearestId, (counts.get(nearestId) || 0) + 1) for each
\* observation; the Map as the sequence of its entries in insertion order
countOne(counts, obs, summaries) ==
  LET bump(id) ==
        IF \E k \in 1..Len(counts) : counts[k].id = id
        THEN [k \in 1..Len(counts) |->
                IF counts[k].id = id
                THEN [id |-> id, count |-> counts[k].count + 1]
                ELSE counts[k]]
        ELSE Append(counts, [id |-> id, count |-> 1])
  IN  bump(nearestId(obs, summaries))

RECURSIVE countNearest(_, _, _)
countNearest(observations, summaries, counts) ==
  IF observations = <<>> THEN counts
  ELSE IF Len(observations) = 1 THEN countOne(counts, observations[1], summaries)
       ELSE CHOOSE r \in { countNearest(SecondHalf(observations), summaries, h) :
                             h \in { countNearest(FirstHalf(observations), summaries,
                                                  counts) } } : TRUE

\* calculateDiversity with 0 as the value of a store without observations
\* or without centroids
calculateDiversityOrZero(f, window) ==
  LET entropyOf(counts) == ExpEntropy([k \in 1..Len(counts) |-> counts[k].count])
      diversityOf(observations, summaries) ==
        IF Len(observations) = 0 \/ Len(summaries) = 0 THEN Zero
        ELSE entropyOf(countNearest(observations, summaries, <<>>))
  IN  diversityOf(
        WithEmbedding(query(f, [kinds |-> <<"observation">>, limit |-> window])),
        WithEmbedding(query(f, [kinds |-> <<"summary">>, limit |-> 10])))

calculateDiversity(f, window) ==
  LET entropyOf(counts) == ExpEntropy([k \in 1..Len(counts) |-> counts[k].count])
      diversityOf(observations, summaries) ==
        IF Len(observations) = 0 \/ Len(summaries) = 0 THEN One
        ELSE entropyOf(countNearest(observations, summaries, <<>>))
  IN  diversityOf(
        WithEmbedding(query(f, [kinds |-> <<"observation">>, limit |-> window])),
        WithEmbedding(query(f, [kinds |-> <<"summary">>, limit |-> 10])))

InternalKinds == {"summary", "trace", "self_model", "model", "belief"}

calculateRecursionDominance(f, window) ==
  LET internalCount(recent) ==
        Len(SelectSeq(recent, LAMBDA p : p.kind \in InternalKinds))
      dominanceOf(recent) ==
        IF Len(recent) = 0 THEN Rat(0, 1) ELSE Rat(internalCount(recent), Len(recent))
  IN  dominanceOf(getLatest(f, window))

\* totalDist / (obs.length - 1), totalDist the sum of the square roots of
\* the listed squared distances
calculateVolatility(f, window) ==
  LET volatilityOf(obs) ==
        IF Len(obs) < 2 THEN [sumSqrt |-> <<>>, over |-> 1]
        ELSE [sumSqrt |-> [i \in 1..(Len(obs) - 1) |->
                             distSq(obs[i].embedding, obs[i + 1].embedding)],
              over |-> Len(obs) - 1]
  IN  volatilityOf(
        WithEmbedding(query(f, [kinds |-> <<"observation">>, limit |-> window])))

(***************************************************************************)
(* createPacket and the two operators.  The id (uuidv4) and the time       *)
(* (Date.now() / 1000) of a new packet come from the environment.          *)
(***************************************************************************)
createPacket(id, now, overrides) ==
  overrides @@ [id |-> id, t |-> now, kind |-> "fact", payload |-> null,
                embedding |-> NoEmbedding, tags |-> <<>>, parents |-> <<>>]

MapId(s) == [i \in 1..Len(s) |-> s[i].id]

MapEmbedding(s, c) == [i \in 1..Len(s) |-> s[i].embedding[c]]

CentroidWindow == 32
CentroidMinPoints == 4

\* the packets both applicable and run of CentroidOperator work on
\* a variant that also counts the quarantined probes
groundedPacketsWithProbes(f) ==
  SelectSeq(query(f, [tags_any |-> <<"observation", "belief", "trace">>,
                      limit |-> CentroidWindow]),
            LAMBDA p : p.embedding # NoEmbedding)

groundedPackets(f) ==
  SelectSeq(query(f, [tags_any |-> <<"observation", "belief", "trace">>,
                      limit |-> CentroidWindow]),
            LAMBDA p : p.embedding # NoEmbedding /\ ~Includes(p.tags, "quarantine"))

CentroidOperator_applicable(f) == Len(groundedPackets(f)) >= CentroidMinPoints

centroidOf(pkts) ==
  << RatDiv(RatSum(MapEmbedding(pkts, 1)), Len(pkts)),
     RatDiv(RatSum(MapEmbedding(pkts, 2)), Len(pkts)) >>

\* the mean squared distance of the embeddings to the centroid
dispersionOf(embPkts, centroid) ==
  RatDiv(RatSum([i \in 1..Len(embPkts) |->
                   distSq(embPkts[i].embedding, centroid)]), Len(embPkts))

\* a variant whose summary names every packet of the window as a parent
CentroidOperator_runWindow(f, ctx, id, now) ==
  LET summaryOf(pkts, embPkts, centroid) ==
        createPacket(id, now,
          [kind |-> "summary",
           payload |-> [type |-> "centroid_summary", count |-> Len(embPkts),
                        dispersion |-> dispersionOf(embPkts, centroid)],
           embedding |-> centroid,
           tags |-> <<"memory", "summary">>,
           parents |-> MapId(pkts)])
      resultOn(pkts, embPkts) ==
        [produced |-> <<summaryOf(pkts, embPkts, centroidOf(embPkts))>>,
         consumed |-> MapId(embPkts)]
  IN  resultOn(query(f, [tags_any |-> <<"observation", "belief", "trace">>,
                         limit |-> CentroidWindow]),
               groundedPackets(f))

\* a variant whose run keeps the packets with an embedding, quarantined or not
CentroidOperator_runEmbedded(f, ctx, id, now) ==
  LET summaryOf(embPkts, centroid) ==
        createPacket(id, now,
          [kind |-> "summary",
           payload |-> [type |-> "centroid_summary", count |-> Len(embPkts),
                        dispersion |-> dispersionOf(embPkts, centroid)],
           embedding |-> centroid,
           tags |-> <<"memory", "summary">>,
           parents |-> MapId(embPkts)])
      resultOn(embPkts) ==
        [produced |-> <<summaryOf(embPkts, centroidOf(embPkts))>>,
         consumed |-> MapId(embPkts)]
  IN  resultOn(WithEmbedding(
        query(f, [tags_any |-> <<"observation", "belief", "trace">>,
                  limit |-> CentroidWindow])))

CentroidOperator_run(f, ctx, id, now) ==
  LET summaryOf(embPkts, centroid) ==
        createPacket(id, now,
          [kind |-> "summary",
           payload |-> [type |-> "centroid_summary", count |-> Len(embPkts),
                        dispersion |-> dispersionOf(embPkts, centroid)],
           embedding |-> centroid,
           tags |-> <<"memory", "summary">>,
           parents |-> MapId(embPkts)])
      resultOn(embPkts) ==
        [produced |-> <<summaryOf(embPkts, centroidOf(embPkts))>>,
         consumed |-> MapId(embPkts)]
  IN  resultOn(groundedPackets(f))

HierarchyWindow == 96
HierarchyTargetCount == 10
HierarchyMinSummaries == 10

\* a variant that does not look at the ignition flag
HierarchyOperator_applicableAnyPhase(f, isIgnition) ==
  Len(query(f, [kinds |-> <<"summary">>, limit |-> HierarchyWindow]))
    >= HierarchyMinSummaries

HierarchyOperator_applicable(f, isIgnition) ==
  IF ~isIgnition THEN FALSE
  ELSE Len(query(f, [kinds |-> <<"summary">>, limit |-> HierarchyWindow]))
         >= HierarchyMinSummaries

\* the for loop of HierarchyOperator.run from index i (0-based) on
RECURSIVE hierarchyChunks(_, _, _, _, _)
hierarchyChunks(summaries, i, stepSize, id, now) ==
  IF i >= Len(summaries) THEN <<>>
  ELSE LET chunk == slice(summaries, i, i + stepSize)
           pkt == createPacket(id, now,
                    [kind |-> "summary",
                     payload |-> [type |-> "macro_summary", count |-> Len(chunk)],
                     embedding |-> centroidOf(chunk),
                     tags |-> <<"macro", "map", "do_not_prune_micro", "summary">>,
                     parents |-> MapId(chunk)])
       IN  <<pkt>> \o hierarchyChunks(summaries, i + stepSize, stepSize, id + 1, now)

HierarchyOperator_run(f, ctx, id, now) ==
  LET stepSize(summaries) == Max(1, Len(summaries) \div HierarchyTargetCount)
      resultOn(summaries) ==
        [produced |-> hierarchyChunks(summaries, 0, stepSize(summaries), id, now),
         consumed |-> MapId(summaries)]
  IN  resultOn(WithEmbedding(
        query(f, [kinds |-> <<"summary">>, limit |-> HierarchyWindow])))

(***************************************************************************)
(* Inputs of the store interface.                                          *)
(***************************************************************************)
Kinds == {"observation", "summary"}
AnyLists == {<<>>, <<"a">>, <<"b">>, <<"a", "b">>, <<"b", "a">>}
AllLists == {<<"a">>, <<"a", "b">>, <<"b", "a">>}

\* the kind and tags of the packets that are put
PacketShapes ==
  { [kind |-> "observation", tags |-> <<"a">>],
    [kind |-> "observation", tags |-> <<"b">>],
    [kind |-> "summary",     tags |-> <<"a", "b">>],
    [kind |-> "summary",     tags |-> <<>>] }

Ids(f) == DOMAIN f.packets

\* createPacket gives every new packet a fresh id; ids are opaque, so the
\* k-th packet that enters the store is given the id k
FreshId(f) == getSize(f) + 1

PacketInputs(f) ==
  { [id |-> i, t |-> t, kind |-> sh.kind, tags |-> sh.tags,
     payload |-> null, embedding |-> NoEmbedding, parents |-> <<>>] :
      i \in Ids(f) \cup {FreshId(f)}, t \in 1..MaxT, sh \in PacketShapes }

\* the FieldQuery literals of the callers: only the fields that are given
EmptyQuery == EmptyMap

QueryInputs ==
  {EmptyQuery}
    \cup {[tags_any |-> a] : a \in AnyLists}
    \cup {[tags_all |-> l] : l \in AllLists}
    \cup {[tags_any |-> a, tags_all |-> l] : a \in AnyLists, l \in AllLists}
    \cup {[kinds |-> <<k>>] : k \in Kinds}
    \cup {[tags_any |-> <<"a", "b">>, kinds |-> <<k>>] : k \in Kinds}
    \cup {[limit |-> n] : n \in 0..MaxN}
    \cup {[kinds |-> <<k>>, limit |-> n] : k \in Kinds, n \in 1..MaxN}
    \cup {[since_t |-> t] : t \in 1..MaxT}
    \cup {[until_t |-> t] : t \in 1..MaxT}
    \cup {[tags_any |-> <<"a">>, since_t |-> t, until_t |-> t] : t \in 1..MaxT}

(***************************************************************************)
(* Operations.  A caller calls one method at a time: the call records the  *)
(* method, its argument and its return value, and Return hands control     *)
(* back to the caller, who makes the next call.                            *)
(***************************************************************************)
Constructed(running) ==
  /\ field = NewField
  /\ op = "idle"
  /\ arg = <<>>
  /\ ret = <<>>
  /\ step = 0
  /\ ignitionStepsRemaining = 0
  /\ pending = <<>>
  /\ clock = 1
  /\ cooldownRemaining = 0
  /\ stepLimit = MaxSteps
  /\ isRunning = running
  /\ isAiLoading = FALSE
  /\ analysis = 0

Init == Constructed(FALSE)

\* the App once the button that starts the loop has been pressed
InitLoop == Constructed(TRUE)

Put ==
  /\ op = "idle"
  /\ \E pkt \in PacketInputs(field) :
       /\ pkt.id \in Ids(field) \/ getSize(field) < MaxPackets
       /\ field' = put(field, pkt)
       /\ op' = "put"
       /\ arg' = pkt
       /\ ret' = pkt.id
       /\ UNCHANGED app

Get ==
  /\ op = "idle"
  /\ \E id \in 1..(MaxPackets + 1) :
       /\ op' = "get"
       /\ arg' = id
       /\ ret' = get(field, id)
       /\ UNCHANGED <<field, app>>

Query ==
  /\ op = "idle"
  /\ \E q \in QueryInputs :
       /\ op' = "query"
       /\ arg' = q
       /\ ret' = query(field, q)
       /\ UNCHANGED <<field, app>>

GetLatest ==
  /\ op = "idle"
  /\ \E n \in 0..MaxN :
       /\ op' = "getLatest"
       /\ arg' = n
       /\ ret' = getLatest(field, n)
       /\ UNCHANGED <<field, app>>

Return ==
  /\ op # "idle"
  /\ op' = "idle"
  /\ arg' = <<>>
  /\ ret' = <<>>
  /\ UNCHANGED <<field, app>>

Next == Put \/ Get \/ Query \/ GetLatest \/ Return

Spec == Init /\ [][Next]_vars

(***************************************************************************)
(* Calls of the metrics and of the operators on the current store.         *)
(***************************************************************************)
Embeddings == { <<Rat(0, 1), Rat(0, 1)>>, <<Rat(1, 1), Rat(1, 1)>> }

DiversityWindow == 32
DominanceWindow == 32
VolatilityWindow == 10

NoContext == [step |-> 0]

CalculateInnovationError ==
  /\ op = "idle"
  /\ \E e \in Embeddings \cup {NoEmbedding} :
       /\ op' = "calculateInnovationError"
       /\ arg' = createPacket(FreshId(field), clock,
                              [kind |-> "observation", embedding |-> e])
       /\ ret' = calculateInnovationError(field, arg')
       /\ UNCHANGED <<field, app>>

\* the windows the metrics are called with: the ones of the application and
\* small ones, which a store of a few packets exceeds
DiversityWindows == {1, 2, DiversityWindow}
DominanceWindows == {1, 2, DominanceWindow}

CalculateDiversity ==
  /\ op = "idle"
  /\ \E window \in DiversityWindows :
       /\ op' = "calculateDiversity"
       /\ arg' = window
       /\ ret' = calculateDiversity(field, window)
       /\ UNCHANGED <<field, app>>

CalculateRecursionDominance ==
  /\ op = "idle"
  /\ \E window \in DominanceWindows :
       /\ op' = "calculateRecursionDominance"
       /\ arg' = window
       /\ ret' = calculateRecursionDominance(field, window)
       /\ UNCHANGED <<field, app>>

CalculateVolatility ==
  /\ op = "idle"
  /\ op' = "calculateVolatility"
  /\ arg' = VolatilityWindow
  /\ ret' = calculateVolatility(field, VolatilityWindow)
  /\ UNCHANGED <<field, app>>

CentroidApplicable ==
  /\ op = "idle"
  /\ op' = "CentroidOperator.applicable"
  /\ arg' = <<>>
  /\ ret' = CentroidOperator_applicable(field)
  /\ UNCHANGED <<field, app>>

\* a variant of the call that commits what the operator produced
CentroidRunCommitting ==
  /\ op = "idle"
  /\ op' = "CentroidOperator.run"
  /\ arg' = NoContext
  /\ ret' = CentroidOperator_run(field, NoContext, FreshId(field), clock)
  /\ field' = putNew(field, ret'.produced[1])
  /\ UNCHANGED app

CentroidRun ==
  /\ op = "idle"
  /\ op' = "CentroidOperator.run"
  /\ arg' = NoContext
  /\ ret' = CentroidOperator_run(field, NoContext, FreshId(field), clock)
  /\ UNCHANGED <<field, app>>

HierarchyApplicable ==
  /\ op = "idle"
  /\ \E isIgnition \in BOOLEAN :
       /\ op' = "HierarchyOperator.applicable"
       /\ arg' = isIgnition
       /\ ret' = HierarchyOperator_applicable(field, isIgnition)
       /\ UNCHANGED <<field, app>>

HierarchyRun ==
  /\ op = "idle"
  /\ op' = "HierarchyOperator.run"
  /\ arg' = NoContext
  /\ ret' = HierarchyOperator_run(field, NoContext, FreshId(field), clock)
  /\ UNCHANGED <<field, app>>

(***************************************************************************)
(* The metrics and the operators as functions of the store: they are       *)
(* called on every store of a bounded family.  A store of the family is    *)
(* built by createPacket and put from a list of packet shapes and times.   *)
(***************************************************************************)
MaxStore == 3
MaxEligible == 5

origin == <<Rat(0, 1), Rat(0, 1)>>
corner == <<Rat(1, 1), Rat(1, 1)>>

\* the store after f received, in order, a packet of each listed shape and
\* time: the first half of the list is put, then the second half into the
\* store that resulted
RECURSIVE putShapes(_, _)
putShapes(f, items) ==
  IF items = <<>> THEN f
  ELSE IF Len(items) = 1
       THEN put(f, createPacket(FreshId(f), items[1].t, items[1].shape))
       ELSE CHOOSE h \in { putShapes(g, SubSeq(items, Len(items) \div 2 + 1, Len(items))) :
                             g \in { putShapes(f, SubSeq(items, 1, Len(items) \div 2)) } } :
              TRUE

\* the shapes of the small stores
SmallShapes ==
  { [kind |-> "observation", embedding |-> origin, tags |-> <<"sensor", "observation">>],
    [kind |-> "observation", tags |-> <<"sensor", "observation">>],
    [kind |-> "summary", embedding |-> origin, tags |-> <<"memory", "summary">>],
    [kind |-> "summary", embedding |-> corner, tags |-> <<"memory", "summary">>],
    [kind |-> "summary", tags |-> <<"memory", "summary">>],
    [kind |-> "self_model", tags |-> <<"self", "model">>] }

\* every store of at most MaxStore packets of these shapes, put in any order
\* of their times
SmallStores ==
  { putShapes(NewField, items) :
      items \in UNION { [1..n -> [shape : SmallShapes, t : 1..MaxT]] : n \in 0..MaxStore } }

\* packets the centroid operator counts, and packets it does not count
EligibleShapes ==
  { [kind |-> "observation", embedding |-> origin, tags |-> <<"sensor", "observation">>],
    [kind |-> "trace", embedding |-> corner, tags |-> <<"trace">>] }

FillerShapes ==
  { [kind |-> "observation", embedding |-> corner,
     tags |-> <<"curiosity", "self_initiated", "probe", "quarantine", "observation">>],
    [kind |-> "observation", tags |-> <<"sensor", "observation">>],
    [kind |-> "fact", embedding |-> corner, tags |-> <<"sensor">>],
    [kind |-> "summary", embedding |-> corner, tags |-> <<"memory", "summary">>] }

Repeat(shape, n) == [i \in 1..n |-> shape]

\* the packets in the order they are put, with times that rise or fall
withTimes(shapes, rising) ==
  [i \in 1..Len(shapes) |->
     [shape |-> shapes[i], t |-> IF rising THEN i ELSE Len(shapes) + 1 - i]]

\* stores of a run of eligible packets and a run of other packets, of which
\* there may be as many as the operator's window holds
RunStores ==
  { putShapes(NewField,
      withTimes(IF first THEN Repeat(e, n) \o Repeat(x, m)
                ELSE Repeat(x, m) \o Repeat(e, n), rising)) :
      e \in EligibleShapes, n \in 0..MaxEligible, x \in FillerShapes,
      m \in {0, 1, CentroidWindow}, first \in BOOLEAN, rising \in BOOLEAN }

\* stores that hold about as many summaries as the hierarchy operator asks for
SummaryStores ==
  { putShapes(NewField,
      withTimes(Repeat(x, m) \o Repeat(e, n), TRUE)) :
      x \in { s \in SmallShapes : s.kind = "summary" },
      m \in (HierarchyMinSummaries - 1)..(HierarchyMinSummaries + 1),
      e \in EligibleShapes, n \in 0..1 }

\* stores of four packets, observations and summaries at two places
MixedShapes ==
  { [kind |-> k, embedding |-> e, tags |-> <<k>>] :
      k \in {"observation", "summary"}, e \in {origin, corner} }

MixedStores ==
  { putShapes(NewField, withTimes(shapes, TRUE)) : shapes \in [1..4 -> MixedShapes] }

\* stores of two summaries at two places and three observations, of which
\* some have no embedding
GapShapes ==
  { [kind |-> "observation", embedding |-> origin, tags |-> <<"sensor", "observation">>],
    [kind |-> "observation", embedding |-> corner, tags |-> <<"sensor", "observation">>],
    [kind |-> "observation", tags |-> <<"sensor", "observation">>] }

GapStores ==
  { putShapes(NewField,
      withTimes(<< [kind |-> "summary", embedding |-> origin, tags |-> <<"memory", "summary">>],
                   [kind |-> "summary", embedding |-> corner, tags |-> <<"memory", "summary">>] >>
                \o shapes, TRUE)) :
      shapes \in [1..3 -> GapShapes] }

CallStores == SmallStores \cup RunStores \cup SummaryStores \cup MixedStores \cup GapStores

InitCalls ==
  /\ field \in CallStores
  /\ op = "idle"
  /\ arg = <<>>
  /\ ret = <<>>
  /\ step = 0
  /\ ignitionStepsRemaining = 0
  /\ pending = <<>>
  /\ clock = 1
  /\ cooldownRemaining = 0
  /\ stepLimit = MaxSteps
  /\ isRunning = FALSE
  /\ isAiLoading = FALSE
  /\ analysis = 0

NextCalls ==
  \/ CalculateInnovationError \/ CalculateDiversity
  \/ CalculateRecursionDominance \/ CalculateVolatility
  \/ CentroidApplicable \/ CentroidRun \/ HierarchyApplicable \/ HierarchyRun
  \/ Return

SpecCalls == InitCalls /\ [][NextCalls]_vars

(***************************************************************************)
(* The driver of App.tsx (triggerIgnition and runStep).  Of the React      *)
(* state only step and ignitionStepsRemaining are kept; self, epistemic,   *)
(* logs, recursionStallCount and the displayed packets are written by the  *)
(* handlers and read by nothing that reaches the store.                    *)
(***************************************************************************)
IgnitionSteps == 15
SelfModelEvery == 5

RECURSIVE putAll(_, _)
putAll(f, pkts) == IF pkts = <<>> THEN f ELSE putAll(put(f, Head(pkts)), Tail(pkts))

\* the three quarantined probes of triggerIgnition, from the i-th on
RECURSIVE probes(_, _, _, _)
probes(i, id, now, embs) ==
  IF i > Len(embs) THEN <<>>
  ELSE << createPacket(id, now,
            [kind |-> "observation",
             payload |-> [type |-> "active_probe", id |-> i - 1],
             embedding |-> embs[i],
             tags |-> <<"curiosity", "self_initiated", "probe", "quarantine",
                        "observation">>]) >>
       \o probes(i + 1, id + 1, now, embs)

\* each coordinate of a probe is 0.3 + 0.4 * Math.random()
ProbeEmbeddings ==
  { << <<Rat(1, 2), Rat(1, 2)>>, <<Rat(3, 10), Rat(3, 5)>>, <<Rat(1, 2), Rat(1, 2)>> >>,
    << <<Rat(3, 10), Rat(3, 5)>>, <<Rat(3, 10), Rat(3, 5)>>, <<Rat(3, 10), Rat(3, 5)>> >> }

TriggerIgnition ==
  /\ op = "idle"
  /\ ignitionStepsRemaining = 0
  /\ \E embs \in ProbeEmbeddings :
       /\ field' = putAll(field, probes(1, FreshId(field), clock, embs))
       /\ arg' = embs
  /\ ignitionStepsRemaining' = IgnitionSteps
  /\ op' = "triggerIgnition"
  /\ ret' = <<>>
  /\ UNCHANGED <<step, pending, clock, cooldownRemaining, stepLimit, controls>>

\* the observation runStep synthesizes locally: the first coordinate is
\* within 0.35 .. 0.65, the second is Math.random()
LocalObservations ==
  { [payload |-> [type |-> "sensor"], embedding |-> e, tags |-> <<"sensor">>] :
      e \in { <<Rat(1, 2), Rat(0, 1)>>, <<Rat(1, 2), Rat(19, 20)>> } }

\* what generateSyntheticObservation resolves to: the generated data point,
\* or the fallback observation when the request failed otherwise than by
\* the rate limit
AiObservations ==
  { [payload |-> [info |-> "generated"], embedding |-> <<Rat(1, 1), Rat(1, 1)>>,
     tags |-> <<"synthetic", "external">>],
    [payload |-> [info |-> "Fallback observation"],
     embedding |-> <<Rat(0, 1), Rat(0, 1)>>, tags |-> <<"fallback">>] }

\* the kill switch of runStep: s_t_raw < 0.08 never exceeds 0.15; the third
\* test, exp(-2 eps) (1 - r/2) < 0.15 with r <= 0.7, is true when eps^2 >=
\* 0.9, false when eps^2 <= 0.53 and decided by `band` in between
killSwitch(eps_t, r_t, band) ==
  \/ RatLess(Rat(7, 10), r_t)
  \/ IF ~RatLess(eps_t.sqrt, Rat(9, 10)) THEN TRUE
     ELSE IF ~RatLess(Rat(53, 100), eps_t.sqrt) THEN FALSE
     ELSE band

\* step 5 of runStep: the operators that are applicable run, and what they
\* produce is put
\* a variant whose summary is put with its own id among its parents
runCentroidSelfParent(f, opCtx, now) ==
  LET selfParent(pkt) == [pkt EXCEPT !.parents = Append(pkt.parents, pkt.id)]
      putSummary(produced) == put(f, selfParent(produced[1]))
  IN  IF CentroidOperator_applicable(f)
      THEN putSummary(CentroidOperator_run(f, opCtx, FreshId(f), now).produced)
      ELSE f

runCentroid(f, opCtx, now) ==
  IF CentroidOperator_applicable(f)
  THEN putAll(f, CentroidOperator_run(f, opCtx, FreshId(f), now).produced)
  ELSE f

runHierarchy(f, isIgniting, opCtx, now) ==
  IF HierarchyOperator_applicable(f, isIgniting)
  THEN putAll(f, HierarchyOperator_run(f, opCtx, FreshId(f), now).produced)
  ELSE f

\* step 6 of runStep: the self model, every fifth step
putSelfModel(f, isIgniting, c, now) ==
  IF c.step % SelfModelEvery = 0
  THEN put(f, createPacket(FreshId(f), now,
                [kind |-> "self_model",
                 payload |-> [isIgniting |-> isIgniting],
                 tags |-> <<"self", "model">>]))
  ELSE f

\* steps 2 to 6 of runStep, on the store f1 that holds the observation,
\* with the step and the ignition counter the closure captured (c) and the
\* current counter isr, which the functional updates read
\* the diagnostics a cycle computes and hands to setEpistemic
metricsOf(f, obsPacket) ==
  [innovationError |-> calculateInnovationError(f, obsPacket),
   diversity |-> calculateDiversity(f, DiversityWindow),
   recursionDominance |-> calculateRecursionDominance(f, DominanceWindow),
   volatility |-> calculateVolatility(f, VolatilityWindow)]

diagnose(f1, isr, c, obsPacket, now, band) ==
  LET eps_t == calculateInnovationError(f1, obsPacket)
      r_t == calculateRecursionDominance(f1, DominanceWindow)
      isIgniting == c.ignitionStepsRemaining > 0
      kill == isIgniting /\ killSwitch(eps_t, r_t, band)
      opCtx == [step |-> c.step]
  IN  [field |-> putSelfModel(
                   runHierarchy(runCentroid(f1, opCtx, now), isIgniting, opCtx, now),
                   isIgniting, c, now),
       ignitionStepsRemaining |->
         IF kill THEN 0 ELSE IF isIgniting THEN isr - 1 ELSE isr,
       epistemic |-> metricsOf(f1, obsPacket)]

observe(f, newObs, now) ==
  createPacket(FreshId(f), now,
    [kind |-> "observation", payload |-> newObs.payload,
     embedding |-> newObs.embedding,
     tags |-> Append(newObs.tags, "observation")])

\* runStep from the observation newObs on
cycle(f, isr, c, newObs, now, band) ==
  diagnose(put(f, observe(f, newObs, now)), isr, c, observe(f, newObs, now), now, band)

Closure == [step |-> step, ignitionStepsRemaining |-> ignitionStepsRemaining]

\* The interval fires runStep 1200 ms after the render that installed it,
\* so the clock has advanced when a cycle starts.  A cycle whose observation
\* is synthesized locally runs to its end.
RunStepLocal ==
  /\ op = "idle"
  /\ isRunning
  /\ step < stepLimit
  /\ clock' = clock + 1
  /\ \E newObs \in LocalObservations, band \in BOOLEAN :
       LET r == cycle(field, ignitionStepsRemaining, Closure, newObs, clock', band)
       IN  /\ field' = r.field
           /\ ignitionStepsRemaining' = r.ignitionStepsRemaining
           /\ ret' = r.epistemic
           /\ arg' = newObs
  /\ step' = step + 1
  /\ op' = "runStep"
  /\ UNCHANGED <<pending, cooldownRemaining, stepLimit, controls>>

\* a cycle that awaits generateSyntheticObservation is suspended
RunStepAi ==
  /\ op = "idle"
  /\ isRunning
  /\ step < stepLimit
  /\ Len(pending) < MaxPending
  /\ clock' = clock + 1
  /\ step' = step + 1
  /\ pending' = Append(pending, Closure)
  /\ op' = "runStep.await"
  /\ arg' = <<>>
  /\ ret' = <<>>
  /\ UNCHANGED <<field, ignitionStepsRemaining, cooldownRemaining, stepLimit, controls>>

Remove(s, k) == SubSeq(s, 1, k - 1) \o SubSeq(s, k + 1, Len(s))

\* the promise resolves and the suspended cycle runs to its end
AiResolve ==
  /\ op = "idle"
  /\ \E k \in 1..Len(pending), newObs \in AiObservations, band \in BOOLEAN :
       LET r == cycle(field, ignitionStepsRemaining, pending[k], newObs, clock, band)
       IN  /\ field' = r.field
           /\ ignitionStepsRemaining' = r.ignitionStepsRemaining
           /\ ret' = r.epistemic
           /\ pending' = Remove(pending, k)
           /\ arg' = newObs
  /\ op' = "runStep.resume"
  /\ UNCHANGED <<step, clock, cooldownRemaining, stepLimit, controls>>

\* the promise rejects with RateLimitError: runStep has no handler for it
\* and the rest of the cycle is not run
AiReject ==
  /\ op = "idle"
  /\ \E k \in 1..Len(pending) : pending' = Remove(pending, k)
  /\ op' = "runStep.reject"
  /\ arg' = <<>>
  /\ ret' = <<>>
  /\ UNCHANGED <<field, step, ignitionStepsRemaining, clock, cooldownRemaining, stepLimit, controls>>

NextApp ==
  \/ Get \/ Query \/ GetLatest \/ Return
  \/ CalculateInnovationError \/ CalculateDiversity
  \/ CalculateRecursionDominance \/ CalculateVolatility
  \/ CentroidApplicable \/ CentroidRun \/ HierarchyApplicable \/ HierarchyRun
  \/ TriggerIgnition \/ RunStepLocal \/ RunStepAi \/ AiResolve \/ AiReject

SpecApp == InitLoop /\ [][NextApp]_vars

(***************************************************************************)
(* The first App from the moment the store holds its first centroid        *)
(* summary: the loop has run as many cycles as the centroid operator needs *)
(* points, each with a locally synthesized observation and no ignition.    *)
(***************************************************************************)
WarmSteps == CentroidMinPoints
MaxWarmSteps == 2

\* the store after cycles k+1 .. n of the loop, the i-th with observation obs[i]
RECURSIVE warm(_, _, _, _)
warm(f, k, n, obs) ==
  IF k = n THEN f
  ELSE CHOOSE r \in
         { warm(g, k + 1, n, obs) :
             g \in { cycle(f, 0, [step |-> k, ignitionStepsRemaining |-> 0],
                           obs[k + 1], k + 2, FALSE).field } } : TRUE

WarmStores ==
  { warm(NewField, 0, WarmSteps, obs) : obs \in [1..WarmSteps -> LocalObservations] }

InitWarm ==
  /\ field \in WarmStores
  /\ op = "idle"
  /\ arg = <<>>
  /\ ret = <<>>
  /\ step = WarmSteps
  /\ ignitionStepsRemaining = 0
  /\ pending = <<>>
  /\ clock = WarmSteps + 1
  /\ cooldownRemaining = 0
  /\ stepLimit = WarmSteps + MaxWarmSteps
  /\ isRunning = TRUE
  /\ isAiLoading = FALSE
  /\ analysis = 0

NextLoop ==
  \/ Return
  \/ TriggerIgnition \/ RunStepLocal \/ RunStepAi \/ AiResolve \/ AiReject

SpecWarm == InitWarm /\ [][NextLoop]_vars

(***************************************************************************)
(* The button that starts and halts the loop: the effect installs the      *)
(* interval while isRunning is true and clears it otherwise.               *)
(***************************************************************************)
\* a variant in which halting also drops the suspended cycles
ToggleRunningCancelling ==
  /\ op = "idle"
  /\ isRunning' = ~isRunning
  /\ pending' = IF isRunning THEN <<>> ELSE pending
  /\ op' = "setIsRunning"
  /\ arg' = <<isRunning'>>
  /\ ret' = <<>>
  /\ UNCHANGED <<field, step, ignitionStepsRemaining, clock, cooldownRemaining,
                 stepLimit, isAiLoading, analysis>>

ToggleRunning ==
  /\ op = "idle"
  /\ isRunning' = ~isRunning
  /\ op' = "setIsRunning"
  /\ arg' = <<isRunning'>>
  /\ ret' = <<>>
  /\ UNCHANGED <<field, step, ignitionStepsRemaining, pending, clock,
                 cooldownRemaining, stepLimit, isAiLoading, analysis>>

NextHalt ==
  \/ Return \/ ToggleRunning
  \/ RunStepLocal \/ RunStepAi \/ AiResolve \/ AiReject

SpecHalt == Init /\ [][NextHalt]_vars

(***************************************************************************)
(* The pattern audit of the first App.  The button is disabled while       *)
(* isAiLoading is true; analysis counts the calls of analyzeFieldPatterns  *)
(* that have not settled.                                                  *)
(***************************************************************************)
AuditWindow == 30

\* analyzeFieldPatterns returns the report, or one of its two fixed strings
AnalysisReports ==
  {"report", "No analysis available.", "Cognitive synchronization failed."}

HandleAiAnalysis ==
  /\ op = "idle"
  /\ ~isAiLoading
  /\ isAiLoading' = TRUE
  /\ analysis' = analysis + 1
  /\ op' = "handleAiAnalysis.await"
  /\ arg' = getLatest(field, AuditWindow)
  /\ ret' = <<>>
  /\ UNCHANGED <<field, step, ignitionStepsRemaining, pending, clock,
                 cooldownRemaining, stepLimit, isRunning>>

\* the promise resolves: the report is shown and isAiLoading is reset
AnalysisResolve ==
  /\ op = "idle"
  /\ analysis > 0
  /\ analysis' = analysis - 1
  /\ isAiLoading' = FALSE
  /\ op' = "handleAiAnalysis.resume"
  /\ arg' = <<>>
  /\ \E report \in AnalysisReports : ret' = <<report>>
  /\ UNCHANGED <<field, step, ignitionStepsRemaining, pending, clock,
                 cooldownRemaining, stepLimit, isRunning>>

\* the promise rejects with RateLimitError: handleAiAnalysis has no handler
\* for it and the statements after the await are not run
AnalysisReject ==
  /\ op = "idle"
  /\ analysis > 0
  /\ analysis' = analysis - 1
  /\ op' = "handleAiAnalysis.reject"
  /\ arg' = <<>>
  /\ ret' = <<>>
  /\ UNCHANGED <<field, step, ignitionStepsRemaining, pending, clock,
                 cooldownRemaining, stepLimit, isRunning, isAiLoading>>

NextAudit ==
  \/ Return \/ ToggleRunning \/ RunStepLocal
  \/ HandleAiAnalysis \/ AnalysisResolve \/ AnalysisReject

SpecAudit == Init /\ [][NextAudit]_vars

\* every call of analyzeFieldPatterns settles
FairAudit ==
  /\ SpecAudit
  /\ WF_vars(Return)
  /\ SF_vars(AnalysisResolve \/ AnalysisReject)

(***************************************************************************)
(* The second App of App.tsx, the kernel variant: runVireaxKernel catches  *)
(* the rate limit, starts a cooldown and goes on with a fallback           *)
(* observation; it has no kill switch; it commits an anchor, not a self    *)
(* model, and does so before the operators run.                            *)
(***************************************************************************)
CooldownSeconds == 60
AnchorEvery == 5

\* the three quarantined probes of the kernel's triggerIgnition
RECURSIVE vireaxProbes(_, _, _, _)
vireaxProbes(i, id, now, embs) ==
  IF i > Len(embs) THEN <<>>
  ELSE << createPacket(id, now,
            [kind |-> "observation",
             payload |-> [type |-> "vireax_probe", id |-> i - 1],
             embedding |-> embs[i],
             tags |-> <<"quarantine", "curiosity", "vireax_initiated",
                        "observation">>]) >>
       \o vireaxProbes(i + 1, id + 1, now, embs)

\* each coordinate of a kernel probe is Math.random()
VireaxProbeEmbeddings ==
  { << <<Rat(0, 1), Rat(0, 1)>>, <<Rat(1, 2), Rat(9, 10)>>, <<Rat(0, 1), Rat(0, 1)>> >>,
    << <<Rat(1, 2), Rat(1, 2)>>, <<Rat(1, 2), Rat(1, 2)>>, <<Rat(9, 10), Rat(1, 10)>> >> }

VireaxTriggerIgnition ==
  /\ op = "idle"
  /\ ignitionStepsRemaining <= 0
  /\ \E embs \in VireaxProbeEmbeddings :
       /\ field' = putAll(field, vireaxProbes(1, FreshId(field), clock, embs))
       /\ arg' = embs
  /\ ignitionStepsRemaining' = IgnitionSteps
  /\ op' = "triggerIgnition"
  /\ ret' = <<>>
  /\ UNCHANGED <<step, pending, clock, cooldownRemaining, stepLimit, controls>>

\* the observation the kernel synthesizes locally at step s, theta = s / 10:
\* [0.5 + 0.2 sin(theta), 0.5 + 0.2 cos(theta)], to one decimal
LatticePhase(s) ==
  IF s < 3 THEN <<Rat(1, 2), Rat(7, 10)>> ELSE <<Rat(3, 5), Rat(7, 10)>>

LatticeObservation(s) ==
  [payload |-> [signal |-> Rat(s, 10), mode |-> "Lattice-Phase"],
   embedding |-> LatticePhase(s),
   tags |-> <<"sensor", "periodic">>]

\* what the catch block of runVireaxKernel substitutes on RateLimitError
RateLimitObservation ==
  [payload |-> [info |-> "Rate limit"],
   embedding |-> <<Rat(1, 2), Rat(1, 2)>>,
   tags |-> <<"fallback">>]

\* step 5 of runVireaxKernel: the anchor, every fifth step
putAnchor(f, c, obsPacket, now) ==
  IF c.step % AnchorEvery = 0
  THEN put(f, createPacket(FreshId(f), now,
                [kind |-> "vireax_anchor",
                 payload |-> [status |-> "stabilized"],
                 embedding |-> obsPacket.embedding,
                 tags |-> <<"vireax", "kernel", "anchor">>]))
  ELSE f

\* steps 2 to 6 of runVireaxKernel, on the store f1 that holds the
\* observation, with the step and the ignition counter the closure captured
\* (c) and the current counter isr, which the functional update reads
stabilize(f1, isr, c, obsPacket, now) ==
  LET isIgniting == c.ignitionStepsRemaining > 0
      opCtx == [step |-> c.step]
  IN  [field |-> runHierarchy(
                   runCentroid(putAnchor(f1, c, obsPacket, now), opCtx, now),
                   isIgniting, opCtx, now),
       ignitionStepsRemaining |-> IF isIgniting THEN isr - 1 ELSE isr,
       epistemic |-> metricsOf(f1, obsPacket)]

\* runVireaxKernel from the observation newObs on
kernel(f, isr, c, newObs, now) ==
  stabilize(put(f, observe(f, newObs, now)), isr, c, observe(f, newObs, now), now)

\* the interval fires runVireaxKernel 1100 ms after the render that
\* installed it; a cycle that synthesizes its observation runs to its end
RunKernelLocal ==
  /\ op = "idle"
  /\ isRunning
  /\ step < stepLimit
  /\ clock' = clock + 1
  /\ LET r == kernel(field, ignitionStepsRemaining, Closure,
                     LatticeObservation(step), clock')
     IN  /\ field' = r.field
         /\ ignitionStepsRemaining' = r.ignitionStepsRemaining
         /\ ret' = r.epistemic
  /\ arg' = LatticeObservation(step)
  /\ step' = step + 1
  /\ op' = "runVireaxKernel"
  /\ UNCHANGED <<pending, cooldownRemaining, stepLimit, controls>>

\* a variant that starts the call whatever the cooldown
RunKernelAiAnyCooldown ==
  /\ op = "idle"
  /\ isRunning
  /\ step < stepLimit
  /\ Len(pending) < MaxPending
  /\ clock' = clock + 1
  /\ step' = step + 1
  /\ pending' = Append(pending, Closure)
  /\ op' = "runVireaxKernel.await"
  /\ arg' = <<>>
  /\ ret' = <<>>
  /\ UNCHANGED <<field, ignitionStepsRemaining, cooldownRemaining, stepLimit, controls>>

\* isAiStep needs isRateLimited to be false; the cycle is suspended on
\* generateSyntheticObservation
RunKernelAi ==
  /\ op = "idle"
  /\ isRunning
  /\ step < stepLimit
  /\ cooldownRemaining = 0
  /\ Len(pending) < MaxPending
  /\ clock' = clock + 1
  /\ step' = step + 1
  /\ pending' = Append(pending, Closure)
  /\ op' = "runVireaxKernel.await"
  /\ arg' = <<>>
  /\ ret' = <<>>
  /\ UNCHANGED <<field, ignitionStepsRemaining, cooldownRemaining, stepLimit, controls>>

\* the promise resolves and the suspended cycle runs to its end
KernelResolve ==
  /\ op = "idle"
  /\ \E k \in 1..Len(pending), newObs \in AiObservations :
       LET r == kernel(field, ignitionStepsRemaining, pending[k], newObs, clock)
       IN  /\ field' = r.field
           /\ ignitionStepsRemaining' = r.ignitionStepsRemaining
           /\ ret' = r.epistemic
           /\ pending' = Remove(pending, k)
           /\ arg' = newObs
  /\ op' = "runVireaxKernel.resume"
  /\ UNCHANGED <<step, clock, cooldownRemaining, stepLimit, controls>>

\* the promise rejects with RateLimitError: the catch block starts the
\* cooldown and the cycle runs to its end with the substitute observation
KernelRateLimited ==
  /\ op = "idle"
  /\ \E k \in 1..Len(pending) :
       LET r == kernel(field, ignitionStepsRemaining, pending[k],
                       RateLimitObservation, clock)
       IN  /\ field' = r.field
           /\ ignitionStepsRemaining' = r.ignitionStepsRemaining
           /\ ret' = r.epistemic
           /\ pending' = Remove(pending, k)
  /\ cooldownRemaining' = CooldownSeconds
  /\ arg' = RateLimitObservation
  /\ op' = "runVireaxKernel.rateLimited"
  /\ UNCHANGED <<step, clock, stepLimit, controls>>

\* a variant of the timer that takes two seconds off at once
CooldownTickByTwo ==
  /\ op = "idle"
  /\ cooldownRemaining > 0
  /\ cooldownRemaining' = Max(0, cooldownRemaining - 2)
  /\ op' = "cooldown.tick"
  /\ arg' = <<>>
  /\ ret' = <<>>
  /\ UNCHANGED <<field, step, ignitionStepsRemaining, pending, clock, stepLimit, controls>>

\* the cooldown timer, once a second while the cooldown lasts
CooldownTick ==
  /\ op = "idle"
  /\ cooldownRemaining > 0
  /\ cooldownRemaining' = Max(0, cooldownRemaining - 1)
  /\ op' = "cooldown.tick"
  /\ arg' = <<>>
  /\ ret' = <<>>
  /\ UNCHANGED <<field, step, ignitionStepsRemaining, pending, clock, stepLimit, controls>>

NextVireax ==
  \/ Return
  \/ VireaxTriggerIgnition \/ RunKernelLocal \/ RunKernelAi
  \/ KernelResolve \/ KernelRateLimited \/ CooldownTick

SpecVireax == InitLoop /\ [][NextVireax]_vars

(***************************************************************************)
(* The pattern audit of the second App, and the loop together with it.     *)
(***************************************************************************)
MaxKernelSteps == 2

\* handleAiAnalysis returns at once while isRateLimited, and otherwise
\* awaits analyzeFieldPatterns
VireaxHandleAiAnalysis ==
  /\ op = "idle"
  /\ ~isAiLoading
  /\ IF cooldownRemaining > 0
       THEN /\ op' = "handleAiAnalysis.skipped"
            /\ arg' = <<>>
            /\ UNCHANGED <<isAiLoading, analysis>>
       ELSE /\ op' = "handleAiAnalysis.await"
            /\ arg' = getLatest(field, AuditWindow)
            /\ isAiLoading' = TRUE
            /\ analysis' = analysis + 1
  /\ ret' = <<>>
  /\ UNCHANGED <<field, step, ignitionStepsRemaining, pending, clock,
                 cooldownRemaining, stepLimit, isRunning>>

\* the promise resolves: the report is shown, and finally resets isAiLoading
VireaxAnalysisResolve ==
  /\ op = "idle"
  /\ analysis > 0
  /\ analysis' = analysis - 1
  /\ isAiLoading' = FALSE
  /\ op' = "handleAiAnalysis.resume"
  /\ arg' = <<>>
  /\ \E report \in AnalysisReports : ret' = <<report>>
  /\ UNCHANGED <<field, step, ignitionStepsRemaining, pending, clock,
                 cooldownRemaining, stepLimit, isRunning>>

\* the promise rejects with RateLimitError: the handler starts the cooldown,
\* and finally resets isAiLoading
VireaxAnalysisRateLimited ==
  /\ op = "idle"
  /\ analysis > 0
  /\ analysis' = analysis - 1
  /\ cooldownRemaining' = CooldownSeconds
  /\ isAiLoading' = FALSE
  /\ op' = "handleAiAnalysis.rateLimited"
  /\ arg' = <<>>
  /\ ret' = <<>>
  /\ UNCHANGED <<field, step, ignitionStepsRemaining, pending, clock,
                 stepLimit, isRunning>>

InitCooldown ==
  /\ field = NewField
  /\ op = "idle"
  /\ arg = <<>>
  /\ ret = <<>>
  /\ step = 0
  /\ ignitionStepsRemaining = 0
  /\ pending = <<>>
  /\ clock = 1
  /\ cooldownRemaining = 0
  /\ stepLimit = MaxKernelSteps
  /\ isRunning = FALSE
  /\ isAiLoading = FALSE
  /\ analysis = 0

NextCooldown ==
  \/ Return \/ ToggleRunning
  \/ RunKernelLocal \/ RunKernelAi \/ KernelResolve \/ KernelRateLimited
  \/ VireaxHandleAiAnalysis \/ VireaxAnalysisResolve \/ VireaxAnalysisRateLimited
  \/ CooldownTick

SpecCooldown == InitCooldown /\ [][NextCooldown]_vars

\* the timer fires once a second whatever else the App does
FairCooldown ==
  /\ SpecCooldown
  /\ WF_vars(Return)
  /\ SF_vars(CooldownTick)

(***************************************************************************)
(* Properties of the store (InformationField.put / get).                   *)
(* The k-th packet that entered the store has id k, so the order of the    *)
(* ids is the order of insertion.                                          *)
(***************************************************************************)

\* C1: when put(p) is called with an id that is not in the store, or with
\* the very packet the store holds under that id (ids are unique per
\* packet), then on return get(p.id) is p with all fields equal; and when
\* p was already stored (a second put(p)), getSize() is unchanged.
C1_PutThenGet ==
  [][ op' = "put" =>
        /\ (arg'.id \notin Ids(field) \/ field.packets[arg'.id] = arg')
             => get(field', arg'.id) = arg'
        /\ (arg'.id \in Ids(field) /\ field.packets[arg'.id] = arg')
             => getSize(field') = getSize(field) ]_vars

\* a second put(p) has returned: p is stored as given, and p is not the
\* packet that entered the store last
C1_Witness ==
  /\ op = "put"
  /\ arg.id \in Ids(field)
  /\ field.packets[arg.id] = arg
  /\ arg.id < getSize(field)

\* C2: put of a packet whose id is already in the store leaves the packet
\* map, the timeline and the tag index unchanged, whatever the other
\* fields of the new packet are, and returns that id.
C2_DuplicatePutIsNoOp ==
  [][ (op' = "put" /\ arg'.id \in Ids(field)) =>
        /\ field'.packets = field.packets
        /\ field'.timeline = field.timeline
        /\ field'.tagIndex = field.tagIndex
        /\ ret' = arg'.id ]_vars

\* a put has returned whose packet had a stored id and differs from the
\* stored packet in t, kind and tags
C2_Witness ==
  /\ op = "put"
  /\ arg.id \in Ids(field)
  /\ field.packets[arg.id].t # arg.t
  /\ field.packets[arg.id].tags # arg.tags
  /\ field.packets[arg.id].kind # arg.kind

\* C3: whatever the application does -- reads of the store, metric
\* computations, operator applicable/run calls, ignition triggers, driver
\* cycles and the puts they make -- every packet that is in the store stays
\* in it, get returns it with unchanged fields, and getSize never decreases.
C3_AppendOnly ==
  [][ /\ \A id \in Ids(field) :
           /\ id \in Ids(field')
           /\ get(field', id) = field.packets[id]
      /\ getSize(field') >= getSize(field) ]_vars

\* a driver cycle has just put the summary of the centroid operator, and
\* every packet that the operator reported as consumed is still stored
C3_Witness ==
  /\ op = "runStep"
  /\ \E id \in Ids(field) :
       /\ field.packets[id].kind = "summary"
       /\ id = getSize(field)
       /\ Len(field.packets[id].parents) >= CentroidMinPoints
       /\ \A k \in 1..Len(field.packets[id].parents) :
            get(field, field.packets[id].parents[k]) # undefined

\* C4: the timeline holds each stored id exactly once and is sorted
\* ascending by t, packets of equal t in insertion order.
C4_TimelineSorted ==
  LET tl == field.timeline
  IN  /\ Len(tl) = getSize(field)
      /\ {tl[i].id : i \in 1..Len(tl)} = Ids(field)
      /\ \A i \in 1..Len(tl) : tl[i].t = field.packets[tl[i].id].t
      /\ \A i, j \in 1..Len(tl) :
           i < j => \/ tl[i].t < tl[j].t
                    \/ (tl[i].t = tl[j].t /\ tl[i].id < tl[j].id)

\* a packet was put whose t is smaller than that of a packet stored before
\* it and equal to that of another packet stored before it
C4_Witness ==
  LET tl == field.timeline
  IN  \E i, j, k \in 1..Len(tl) :
        /\ i < j /\ j < k
        /\ tl[i].t = tl[j].t /\ tl[j].t < tl[k].t
        /\ tl[j].id > tl[k].id /\ tl[j].id > tl[i].id

\* C5: the tag index is the inverse of the packets' tag sets: id i is in
\* tagIndex[g] if and only if packet i is stored and g is one of its tags.
C5_TagIndexIsInverse ==
  /\ \A g \in {"a", "b", "c"} \cup DOMAIN field.tagIndex :
       \A i \in 1..(MaxPackets + 1) :
         (g \in DOMAIN field.tagIndex /\ Includes(field.tagIndex[g], i))
           <=> (i \in Ids(field) /\ Includes(field.packets[i].tags, g))
  /\ \A g \in DOMAIN field.tagIndex :
       \A i, j \in 1..Len(field.tagIndex[g]) :
         i # j => field.tagIndex[g][i] # field.tagIndex[g][j]

\* a packet with two tags is indexed under both, next to a packet that
\* carries only one of them and an untagged packet
C5_Witness ==
  \E i, j, k \in Ids(field) :
    /\ Len(field.packets[i].tags) = 2
    /\ Len(field.packets[j].tags) = 1
    /\ field.packets[k].tags = <<>>
    /\ \A n \in 1..2 : Includes(field.tagIndex[field.packets[i].tags[n]], i)

(***************************************************************************)
(* Properties of getLatest and query.                                      *)
(***************************************************************************)
Stored == {field.packets[i] : i \in Ids(field)}

Elements(s) == {s[i] : i \in 1..Len(s)}

NoDuplicates(s) == \A i, j \in 1..Len(s) : i # j => s[i].id # s[j].id

Carries(p, tag) == Includes(p.tags, tag)

CarriesAny(p, tags) == \E k \in 1..Len(tags) : Carries(p, tags[k])

CarriesAll(p, tags) == \A k \in 1..Len(tags) : Carries(p, tags[k])

\* C6: for every n >= 0, getLatest(n) returns exactly min(n, size) packets,
\* the n last entries of the timeline, most recent first, t non-increasing.
C6_GetLatestLength ==
  op = "getLatest" =>
    LET tl == field.timeline
    IN  /\ Len(ret) = Min(arg, getSize(field))
        /\ \A i \in 1..Len(ret) : ret[i] = field.packets[tl[Len(tl) + 1 - i].id]
        /\ \A i, j \in 1..Len(ret) : i < j => ret[i].t >= ret[j].t

\* C7: query({}) returns every stored packet exactly once, sorted by
\* descending t.
C7_EmptyQueryReturnsAll ==
  (op = "query" /\ arg = EmptyQuery) =>
    /\ Len(ret) = getSize(field)
    /\ Elements(ret) = Stored
    /\ \A i, j \in 1..Len(ret) : i < j => ret[i].t >= ret[j].t

\* query({}) has returned three packets that are not all of the same t,
\* the first stored of them not being the most recent
C7_Witness ==
  /\ op = "query" /\ arg = EmptyQuery
  /\ Len(ret) = 3
  /\ ret[1].t > ret[3].t
  /\ ret[1].id > ret[3].id

\* the call was query with tags_all = [a, b] and, at most, tags_any
IsAllQuery ==
  /\ op = "query"
  /\ Has(arg, "tags_all")
  /\ DOMAIN arg \subseteq {"tags_all", "tags_any"}
  /\ Len(arg.tags_all) = 2

\* C8 as stated: query({tags_all: [a, b]}) returns exactly the stored
\* packets that carry both a and b, and when tags_any is given as well,
\* those of them that carry at least one tags_any tag.
C8_Original ==
  IsAllQuery =>
    /\ NoDuplicates(ret)
    /\ Elements(ret) =
         {p \in Stored : /\ CarriesAll(p, arg.tags_all)
                         /\ Has(arg, "tags_any") => CarriesAny(p, arg.tags_any)}

\* C8 as amended: the same, the restriction by tags_any applying when
\* tags_any is a non-empty list; an empty tags_any list is ignored.
C8_TagsAll ==
  IsAllQuery =>
    /\ NoDuplicates(ret)
    /\ Elements(ret) =
         {p \in Stored : /\ CarriesAll(p, arg.tags_all)
                         /\ (Has(arg, "tags_any") /\ Len(arg.tags_any) > 0)
                              => CarriesAny(p, arg.tags_any)}

\* query({tags_all: [a, b], tags_any: [..]}) has returned a packet while
\* the store also holds a packet with only one of the two tags
C8_Witness ==
  /\ IsAllQuery
  /\ Has(arg, "tags_any") /\ Len(arg.tags_any) > 0
  /\ Len(ret) >= 1
  /\ \E p \in Stored : Len(p.tags) = 1

\* the call was query with tags_any as its only filter
IsAnyQuery == op = "query" /\ DOMAIN arg = {"tags_any"}

\* C9 as stated: for every tag list L, query({tags_any: L}) returns exactly
\* the stored packets that carry at least one tag of L.
C9_Original ==
  IsAnyQuery =>
    /\ NoDuplicates(ret)
    /\ Elements(ret) = {p \in Stored : CarriesAny(p, arg.tags_any)}

\* C9 as amended: for every non-empty tag list L, query({tags_any: L})
\* returns exactly the stored packets that carry at least one tag of L,
\* none when no packet carries a tag of L.
C9_TagsAny ==
  (IsAnyQuery /\ Len(arg.tags_any) > 0) =>
    /\ NoDuplicates(ret)
    /\ Elements(ret) = {p \in Stored : CarriesAny(p, arg.tags_any)}

\* query({tags_any: [x, y]}) has returned two packets of a store that also
\* holds a packet it did not return
C9_Witness ==
  /\ IsAnyQuery
  /\ Len(arg.tags_any) = 2
  /\ Len(ret) = 2
  /\ getSize(field) = 3

\* C10: every query result is sorted by descending t, packets of equal t in
\* the order in which they were put into the store.
C10_TiesInInsertionOrder ==
  op = "query" =>
    \A i, j \in 1..Len(ret) :
      i < j => \/ ret[i].t > ret[j].t
               \/ (ret[i].t = ret[j].t /\ ret[i].id < ret[j].id)

(***************************************************************************)
(* Properties of the metrics and of the operators.                          *)
(***************************************************************************)
\* the ids of the stored packets of a kind; ids rise in insertion order
IdsOfKind(f, kind) == {id \in Ids(f) : f.packets[id].kind = kind}

MaxOf(S) == CHOOSE x \in S : \A y \in S : y <= x

\* the distance the innovation error is claimed to be: to the summary that
\* was inserted last
errorToLastInserted(f, obs) ==
  IF IdsOfKind(f, "summary") = {} THEN Zero
  ELSE LET last == f.packets[MaxOf(IdsOfKind(f, "summary"))]
       IN  IF last.embedding = NoEmbedding \/ obs.embedding = NoEmbedding THEN Zero
           ELSE Sqrt(distSq(obs.embedding, last.embedding))

\* C11: calculateInnovationError(obs) is the distance between obs.embedding
\* and the embedding of the summary inserted last (also among summaries of
\* equal t and summaries inserted out of t order), and 0 when there is no
\* summary or an embedding is absent.
C11_InnovationErrorToLastInserted ==
  op = "calculateInnovationError" => ret = errorToLastInserted(field, arg)

Embedded(f, kind) ==
  {id \in IdsOfKind(f, kind) : f.packets[id].embedding # NoEmbedding}

\* C12: calculateDiversity is exactly 1.0 on a store without a summary that
\* has an embedding or without an observation that has an embedding.
C12_DiversityNeutral ==
  (/\ op = "calculateDiversity"
   /\ (Embedded(field, "summary") = {} \/ Embedded(field, "observation") = {}))
  => ret = One

\* the diversity was computed on a store that holds an observation with an
\* embedding and a summary, but no summary with an embedding
C12_Witness ==
  /\ op = "calculateDiversity"
  /\ Embedded(field, "observation") # {}
  /\ IdsOfKind(field, "summary") # {}
  /\ Embedded(field, "summary") = {}
  /\ ret = One

\* the ids of the n packets that were inserted last
LastInserted(f, n) == {id \in Ids(f) : id > getSize(f) - n}

IsInternal(p) == p.kind \in {"summary", "trace", "self_model", "model", "belief"}

\* C13: calculateRecursionDominance(window) is the number of packets of an
\* internal kind among the min(window, size) packets inserted last, divided
\* by min(window, size), and 0 on an empty store.
C13_DominanceOfLastInserted ==
  op = "calculateRecursionDominance" =>
    LET n == Min(arg, getSize(field))
        internal == {id \in LastInserted(field, n) : IsInternal(field.packets[id])}
    IN  IF n = 0 THEN ret = Rat(0, 1) ELSE ret = Rat(Cardinality(internal), n)


(***************************************************************************)
(* The centroid operator.                                                  *)
(***************************************************************************)
GroundedTags == {"observation", "belief", "trace"}

Tagged(f) ==
  {id \in Ids(f) : \E tag \in GroundedTags : Includes(f.packets[id].tags, tag)}

IsEligible(p) == p.embedding # NoEmbedding /\ ~Includes(p.tags, "quarantine")

\* the packets of S that are among the n most recent of S however packets of
\* equal time are ranked, and those that are among them under some ranking
SurelyRecent(f, S, n) ==
  {id \in S :
     Cardinality({j \in S \ {id} : f.packets[j].t >= f.packets[id].t}) < n}

PossiblyRecent(f, S, n) ==
  {id \in S : Cardinality({j \in S : f.packets[j].t > f.packets[id].t}) < n}

EligibleAmong(f, S) == {id \in S : IsEligible(f.packets[id])}

\* C14: CentroidOperator.applicable is true exactly when at least 4 of the 32
\* most recent packets tagged observation, belief or trace carry an embedding
\* and are not tagged quarantine; packets outside that window, quarantined
\* packets and packets without an embedding do not count.
C14_CentroidApplicable ==
  op = "CentroidOperator.applicable" =>
    /\ Cardinality(EligibleAmong(field, SurelyRecent(field, Tagged(field), CentroidWindow)))
         >= CentroidMinPoints => ret = TRUE
    /\ ret = TRUE =>
         Cardinality(EligibleAmong(field, PossiblyRecent(field, Tagged(field), CentroidWindow)))
           >= CentroidMinPoints

\* more than 4 eligible packets in the store, all older than the 32 most
\* recent tagged packets, which are quarantined: not applicable
C14_Witness ==
  /\ op = "CentroidOperator.applicable"
  /\ ret = FALSE
  /\ Cardinality(EligibleAmong(field, Tagged(field))) > CentroidMinPoints
  /\ Cardinality(Tagged(field)) > CentroidWindow


SetOf(xs) == {xs[i] : i \in 1..Len(xs)}

NoRepeat(xs) == Cardinality(SetOf(xs)) = Len(xs)

\* C15: CentroidOperator.run produces exactly one new packet, a summary, whose
\* parents are the ids of the eligible packets of the window, each once;
\* consumed is the same list and payload.count is its length.
C15_CentroidRun ==
  op = "CentroidOperator.run" =>
    /\ Len(ret.produced) = 1
    /\ ret.produced[1].kind = "summary"
    /\ ret.produced[1].id \notin Ids(field)
    /\ NoRepeat(ret.produced[1].parents)
    /\ EligibleAmong(field, SurelyRecent(field, Tagged(field), CentroidWindow))
         \subseteq SetOf(ret.produced[1].parents)
    /\ SetOf(ret.produced[1].parents)
         \subseteq EligibleAmong(field, PossiblyRecent(field, Tagged(field), CentroidWindow))
    /\ ret.consumed = ret.produced[1].parents
    /\ ret.produced[1].payload.count = Len(ret.produced[1].parents)

\* five eligible observations among packets that are not eligible: the summary
\* has the five as its parents
C15_Witness ==
  /\ op = "CentroidOperator.run"
  /\ Len(ret.produced[1].parents) = 5
  /\ \A id \in SetOf(ret.produced[1].parents) : field.packets[id].kind = "observation"
  /\ Cardinality(Tagged(field)) > 5


(***************************************************************************)
(* The hierarchy operator.                                                 *)
(***************************************************************************)
\* C16: HierarchyOperator.applicable is false when the ignition flag is false,
\* and with the flag true it is true exactly when the store holds at least 10
\* summaries (the 96 most recent summaries then hold at least 10).
C16_HierarchyApplicable ==
  op = "HierarchyOperator.applicable" =>
    ret = (arg /\ Min(Cardinality(IdsOfKind(field, "summary")), HierarchyWindow)
                    >= HierarchyMinSummaries)

\* the flag is true and the store holds exactly 10 summaries and a packet of
\* another kind: applicable
C16_Witness ==
  /\ op = "HierarchyOperator.applicable"
  /\ arg = TRUE
  /\ Cardinality(IdsOfKind(field, "summary")) = HierarchyMinSummaries
  /\ getSize(field) > HierarchyMinSummaries
  /\ ret = TRUE


(***************************************************************************)
(* The frame of the metrics and the operators.                             *)
(***************************************************************************)
CallOps ==
  {"calculateInnovationError", "calculateDiversity", "calculateRecursionDominance",
   "calculateVolatility", "CentroidOperator.applicable", "CentroidOperator.run",
   "HierarchyOperator.applicable", "HierarchyOperator.run"}

\* the packets g holds and f does not, in the order of their ids
AddedPackets(f, g) ==
  [i \in 1..(getSize(g) - getSize(f)) |-> g.packets[getSize(f) + i]]

\* C17: a call of a metric, of an applicable predicate or of a run function
\* leaves the packet map, the timeline and the tag index as they were, and
\* whenever the store changes it changes by put of packets it did not hold.
C17_CallsLeaveStore ==
  [][ /\ op' \in CallOps => field' = field
      /\ field' # field =>
           /\ getSize(field') > getSize(field)
           /\ Ids(field') = 1..getSize(field')
           /\ field' = putAll(field, AddedPackets(field, field')) ]_vars

\* the centroid operator has produced a summary of four or more packets of
\* the driver's store, and the store does not hold the summary
C17_Witness ==
  /\ op = "CentroidOperator.run"
  /\ step > 0
  /\ Len(ret.produced[1].parents) >= CentroidMinPoints
  /\ ret.produced[1].id \notin Ids(field)


(***************************************************************************)
(* Lineage.  The k-th packet put has id k, so the packets that were in the *)
(* store when packet id was put are those of smaller id.                   *)
(***************************************************************************)
ParentsOf(p) == {p.parents[i] : i \in 1..Len(p.parents)}

\* C18: every id in the parents of a stored packet is the id of a packet that
\* was in the store when the packet was put, and every id in the parents of
\* a packet an operator has produced is in the store it was produced from.
C18_ParentsAlreadyStored ==
  /\ \A id \in Ids(field) : ParentsOf(field.packets[id]) \subseteq 1..(id - 1)
  /\ op \in {"CentroidOperator.run", "HierarchyOperator.run"} =>
       \A i \in 1..Len(ret.produced) : ParentsOf(ret.produced[i]) \subseteq Ids(field)

\* a cycle has put a centroid summary of four or more observations
C18_Witness ==
  \E id \in Ids(field) :
    /\ field.packets[id].kind = "summary"
    /\ Cardinality(ParentsOf(field.packets[id])) >= CentroidMinPoints


(***************************************************************************)
(* The cycles of the driver.                                               *)
(***************************************************************************)
\* C19: at most one cycle is in flight: the interval starts a cycle only when
\* no cycle is suspended on the observation collaborator.
C19_OneCycleInFlight ==
  [][step' = step + 1 => pending = <<>>]_vars


RateLimitOps == {"runStep.reject", "runVireaxKernel.rateLimited"}

\* C20: when the observation collaborator fails with the rate limit, the
\* suspended cycle still completes: it puts a fallback observation, and the
\* cooldown counter is positive afterwards.
C20_RateLimitRecovered ==
  [][op' \in RateLimitOps =>
       /\ \E id \in Ids(field') \ Ids(field) :
            /\ field'.packets[id].kind = "observation"
            /\ Includes(field'.packets[id].tags, "fallback")
       /\ cooldownRemaining' > 0]_vars


(***************************************************************************)
(* The chunks of the hierarchy operator.                                   *)
(***************************************************************************)
CeilDiv(a, b) == (a + b - 1) \div b

\* the i-th of the contiguous chunks of size n of the list xs
Chunk(xs, n, i) == SubSeq(xs, (i - 1) * n + 1, Min(i * n, Len(xs)))

RecentFirst(f, ids) ==
  \A i \in 1..(Len(ids) - 1) : f.packets[ids[i]].t >= f.packets[ids[i + 1]].t

\* C22: HierarchyOperator.run takes the summaries that have an embedding, most
\* recent first, splits them into contiguous chunks of size ceil(count / 10) and
\* produces one summary per chunk whose parents are the chunk's ids: at most
\* 10 packets, and every eligible summary is a parent of exactly one of them.
C22_HierarchyChunks ==
  op = "HierarchyOperator.run" =>
    LET count == Len(ret.consumed)
        size == CeilDiv(count, HierarchyTargetCount)
    IN  /\ SetOf(ret.consumed) = Embedded(field, "summary")
        /\ NoRepeat(ret.consumed)
        /\ RecentFirst(field, ret.consumed)
        /\ Len(ret.produced) <= HierarchyTargetCount
        /\ count > 0 => Len(ret.produced) = CeilDiv(count, size)
        /\ \A i \in 1..Len(ret.produced) :
             /\ ret.produced[i].kind = "summary"
             /\ count > 0 => ret.produced[i].parents = Chunk(ret.consumed, size, i)


(***************************************************************************)
(* The windows of calculateDiversity.                                      *)
(***************************************************************************)
\* the n most recent packets of a kind among those that have an embedding
RecentEmbedded(f, kind, n) ==
  slice(WithEmbedding(query(f, [kinds |-> <<kind>>])), 0, n)

CountsOf(observations, summaries) ==
  LET counts == countNearest(observations, summaries, <<>>)
  IN  ExpEntropy([k \in 1..Len(counts) |-> counts[k].count])

\* C23: calculateDiversity(window) assigns the window most recent observations
\* among those with an embedding to the 10 most recent summaries among those
\* with an embedding; a packet without an embedding takes no slot.
C23_DiversityWindows ==
  op = "calculateDiversity" =>
    LET observations == RecentEmbedded(field, "observation", arg)
        summaries == RecentEmbedded(field, "summary", 10)
    IN  ret = IF observations = <<>> \/ summaries = <<>> THEN One
              ELSE CountsOf(observations, summaries)


(***************************************************************************)
(* getLatest against query.                                                *)
(***************************************************************************)
\* C27: for n >= 1, getLatest(n) returns the sequence query({limit: n})
\* returns, also when packets share a time.
C27_GetLatestIsQueryLimit ==
  (op = "getLatest" /\ arg >= 1) => ret = query(field, [limit |-> arg])


DistinctTimes(f) ==
  \A i \in 1..(Len(f.timeline) - 1) : f.timeline[i].t < f.timeline[i + 1].t

TimesOf(pkts) == [i \in 1..Len(pkts) |-> pkts[i].t]

\* C27, amended: for n >= 1, getLatest(n) and query({limit: n}) return
\* sequences of the same length and the same times, and the same sequence of
\* packets when no two packets of the store share a time.
C27_GetLatestIsQueryLimitUpToTies ==
  (op = "getLatest" /\ arg >= 1) =>
    /\ TimesOf(ret) = TimesOf(query(field, [limit |-> arg]))
    /\ DistinctTimes(field) => ret = query(field, [limit |-> arg])

\* two packets of different times of which getLatest(1) returns the later one
C27_Witness ==
  /\ op = "getLatest"
  /\ arg = 1
  /\ getSize(field) = 2
  /\ DistinctTimes(field)
  /\ ret = query(field, [limit |-> 1])
  /\ ret[1].t = MaxT


(***************************************************************************)
(* Quarantine.                                                             *)
(***************************************************************************)
Quarantined(f) == {id \in Ids(f) : Includes(f.packets[id].tags, "quarantine")}

CentroidSummaries(f) ==
  {id \in IdsOfKind(f, "summary") : f.packets[id].payload.type = "centroid_summary"}

\* C29: no packet tagged quarantine is a parent of a stored summary of the
\* centroid operator, and none is in the consumed list or among the parents
\* of a result of CentroidOperator.run.
C29_QuarantineNeverCompressed ==
  /\ \A id \in CentroidSummaries(field) :
       ParentsOf(field.packets[id]) \cap Quarantined(field) = {}
  /\ op = "CentroidOperator.run" =>
       /\ SetOf(ret.consumed) \cap Quarantined(field) = {}
       /\ ParentsOf(ret.produced[1]) \cap Quarantined(field) = {}

\* the store holds the probes of an ignition and a centroid summary that a
\* cycle has put after them
C29_Witness ==
  \E id \in CentroidSummaries(field) :
    /\ Cardinality(ParentsOf(field.packets[id])) >= CentroidMinPoints
    /\ \E q \in Quarantined(field) : q < id


(***************************************************************************)
(* The ignition counter.                                                   *)
(***************************************************************************)
\* C28: ignitionStepsRemaining is always within 0..15: it is set to 15 only
\* when it is 0, a cycle decrements it by at most one, and it never becomes
\* negative.
C28_IgnitionCounterInRange ==
  /\ ignitionStepsRemaining \in 0..IgnitionSteps
  /\ op = "triggerIgnition" => ignitionStepsRemaining = IgnitionSteps


(***************************************************************************)
(* The order of the steps of a cycle.                                      *)
(***************************************************************************)
CycleOps ==
  {"runStep", "runStep.resume",
   "runVireaxKernel", "runVireaxKernel.resume", "runVireaxKernel.rateLimited"}

IsSnapshot(p) == p.kind \in {"self_model", "vireax_anchor"}

\* C26: a cycle puts its observation first, computes the metrics on the store
\* that holds the observation and none of its other packets, puts the
\* operators' summaries after that, and puts its periodic snapshot after the
\* operators' summaries.
C26_CycleOrder ==
  [][op' \in CycleOps =>
       LET added == AddedPackets(field, field')
       IN  /\ Len(added) >= 1
           /\ added[1].kind = "observation"
           /\ added[1].embedding = arg'.embedding
           /\ ret' = metricsOf(put(field, added[1]), added[1])
           /\ \A i \in 1..Len(added), j \in 1..Len(added) :
                i < j => ~(IsSnapshot(added[i]) /\ added[j].kind = "summary")]_vars


(***************************************************************************)
(* Halting the loop.                                                       *)
(***************************************************************************)
ResumeOps ==
  {"runStep.resume", "runVireaxKernel.resume", "runVireaxKernel.rateLimited"}

\* C21: a cycle starts only while isRunning is true; halting leaves the store
\* and the suspended cycles as they are; a suspended cycle that resumes,
\* whether the loop runs or not, leaves the suspended ones and puts its
\* observation.
C21_HaltDoesNotInterrupt ==
  [][ /\ step' # step => isRunning /\ step' = step + 1
      /\ op' = "setIsRunning" => pending' = pending /\ field' = field
      /\ op' \in ResumeOps =>
           /\ Len(pending') = Len(pending) - 1
           /\ AddedPackets(field, field')[1].kind = "observation"
           /\ AddedPackets(field, field')[1].embedding = arg'.embedding ]_vars

\* the loop is halted and a cycle that was suspended has resumed and has put
\* its observation
C21_Witness ==
  /\ ~isRunning
  /\ op = "runStep.resume"
  /\ pending = <<>>
  /\ \E id \in Ids(field) : field.packets[id].embedding = arg.embedding


(***************************************************************************)
(* The cooldown after a rate limit.                                        *)
(***************************************************************************)
CollaboratorCalls == {"runVireaxKernel.await", "handleAiAnalysis.await"}

\* C24: a call of the observation or report collaborator starts only while
\* the cooldown counter is zero; a pattern audit asked for during the
\* cooldown changes nothing, a cycle started during it suspends nothing, and
\* a tick of the timer starts no call.
C24_NoCallDuringCooldown ==
  [][ /\ op' \in CollaboratorCalls => cooldownRemaining = 0
      /\ (Len(pending') > Len(pending) \/ analysis' > analysis)
           => op' \in CollaboratorCalls
      /\ op' = "handleAiAnalysis.skipped" =>
           /\ cooldownRemaining > 0
           /\ UNCHANGED <<field, pending, cooldownRemaining, isAiLoading, analysis>>
      /\ (cooldownRemaining > 0 /\ step' = step + 1) => pending' = pending
      /\ op' = "cooldown.tick" => UNCHANGED <<field, pending, analysis>> ]_vars

\* the cooldown lasts, nothing is in flight, and a pattern audit was asked
\* for and skipped after a cycle ran on a synthesized observation
C24_Witness ==
  /\ cooldownRemaining > 0
  /\ op = "handleAiAnalysis.skipped"
  /\ pending = <<>>
  /\ analysis = 0
  /\ step > 0

\* C25: a tick of the timer takes exactly one off the cooldown counter, the
\* counter stays between zero and the cooldown length and changes only by a
\* tick or by a rate limit that sets it to the cooldown length, and a
\* positive counter reaches zero.
C25_CooldownCountsDown ==
  /\ [][ /\ op' = "cooldown.tick" =>
              cooldownRemaining' = cooldownRemaining - 1
         /\ cooldownRemaining' \in 0..CooldownSeconds
         /\ cooldownRemaining' # cooldownRemaining =>
              \/ op' = "cooldown.tick"
              \/ /\ op' \in {"runVireaxKernel.rateLimited", "handleAiAnalysis.rateLimited"}
                 /\ cooldownRemaining' = CooldownSeconds ]_vars
  /\ (cooldownRemaining > 0) ~> (cooldownRemaining = 0)

\* the last tick of a cooldown has just brought the counter to zero
C25_Witness ==
  /\ cooldownRemaining = 0
  /\ op = "cooldown.tick"

(***************************************************************************)
(* The pattern audit.                                                      *)
(***************************************************************************)
AuditOps ==
  {"handleAiAnalysis.await", "handleAiAnalysis.resume", "handleAiAnalysis.reject",
   "handleAiAnalysis.rateLimited", "handleAiAnalysis.skipped"}

\* C30: a pattern audit leaves the store as it is, and isAiLoading, once
\* true, returns to false.
C30_AuditFinishes ==
  /\ [][op' \in AuditOps => field' = field]_vars
  /\ isAiLoading ~> ~isAiLoading

====
